---- MODULE Spec2Model ----
(***************************************************************************)
(* Nutrition reconciliation pipeline of caloreat: the daily-log handlers   *)
(* of DailyLogPage.jsx (handleAddLog, quickAddFood, analyzeItemsBackend,   *)
(* handleAnalyzeToday, handleEdit), the Firestore helpers they call and    *)
(* the status pollers (pollForSummary, generateDailySummary).              *)
(*                                                                         *)
(* Text is modelled as a sequence of one-character strings, so that        *)
(* normalisation and substring tests are computed, not assumed.            *)
(***************************************************************************)
EXTENDS Integers, Sequences, FiniteSets, TLC

\* ------------------------------------------------------------------ bounds
MaxLogs == 2
MaxDay == 2

\* JS null / undefined in a numeric field
None == -1

\* ------------------------------------------------------------------ text
\* toLowerCase, on the capitals the model's texts use
Lower(c) ==
  CASE c = "A" -> "a"
    [] c = "M" -> "m"
    [] c = "R" -> "r"
    [] c = "S" -> "s"
    [] c = "W" -> "w"
    [] c = "X" -> "x"
    [] OTHER -> c

\* the character class [a-z0-9 ]
KeptChars ==
  {"a", "b", "c", "d", "e", "f", "g", "h", "i", "j", "k", "l", "m", "n", "o", "p", "q",
   "r", "s", "t", "u", "v", "w", "x", "y", "z",
   "0", "1", "2", "3", "4", "5", "6", "7", "8", "9", " "}

IsKept(c) == c \in KeptChars

RECURSIVE TrimStart(_)
TrimStart(s) == IF s # <<>> /\ Head(s) = " " THEN TrimStart(Tail(s)) ELSE s

RECURSIVE TrimEnd(_)
TrimEnd(s) ==
  IF s # <<>> /\ s[Len(s)] = " " THEN TrimEnd(SubSeq(s, 1, Len(s) - 1)) ELSE s

Trim(s) == TrimEnd(TrimStart(s))

ToLowerCase(s) == [k \in 1..Len(s) |-> Lower(s[k])]

\* .replace(/\s+/g, " ") on a text whose only whitespace is the blank
RECURSIVE CollapseSpaces(_)
CollapseSpaces(s) ==
  IF Len(s) < 2 THEN s
  ELSE IF s[1] = " " /\ s[2] = " " THEN CollapseSpaces(Tail(s))
  ELSE <<s[1]>> \o CollapseSpaces(Tail(s))

\* const normalize = (s) => s.trim().toLowerCase().replace(/[^a-z0-9 ]/g,"").replace(/\s+/g," ")
normalize(s) == CollapseSpaces(SelectSeq(ToLowerCase(Trim(s)), IsKept))

\* String.prototype.includes
Includes(hay, needle) ==
  \E k \in 0..(Len(hay) - Len(needle)) : SubSeq(hay, k + 1, k + Len(needle)) = needle

\* the names used by the model
Rice == <<"R", "i", "c", "e">>
rice == <<"r", "i", "c", "e">>
dal == <<"d", "a", "l">>
Water == <<"W", "a", "t", "e", "r">>
water == <<"w", "a", "t", "e", "r">>
Xyz == <<"X", "y", "z">>

\* ------------------------------------------------------------------ data
NoMacros == [calories_kcal |-> None, protein_g |-> None]

\* names a user types into the meal form / the quick-add presets carry
MealNames == {Rice}
QuickNames == {dal}
\* selectedCategory of the form (Activity is logged the way Sleep is)
Categories == {"Meal", "Water", "Sleep"}
CategoryText(c) ==
  CASE c = "Water" -> Water
    [] c = "Meal" -> <<"M", "e", "a", "l">>
    [] c = "Activity" -> <<"A", "c", "t", "i", "v", "i", "t", "y">>
    [] OTHER -> <<"S", "l", "e", "e", "p">>
CategoryLower(c) ==
  CASE c = "Water" -> "water"
    [] c = "Meal" -> "meal"
    [] c = "Activity" -> "activity"
    [] OTHER -> "sleep"
\* manualCalories of the form ("" is None) and the calorie prompt of handleEdit
ManualInputs == {None, 300}
\* what the analysis service may answer for one item
ResultNames == {rice, water, Xyz}
\* the service's nutrient table: one serving of each name it may answer
ServiceCalories(name) ==
  CASE name = rice -> 120
    [] name = water -> 0
    [] OTHER -> 250
ServiceProtein(name) ==
  CASE name = rice -> 3
    [] name = water -> 0
    [] OTHER -> 7

VARIABLES
  logs,      \* the daily_logs collection: sequence of documents, id = position
  now,       \* Date.now()
  today,     \* new Date().toLocaleDateString("en-CA"), as a day number
  procs,     \* the running invocation of each handler
  order,     \* the invocations that sent run_nutrients, oldest request first
  poll,      \* the status poller
  calc       \* the inputs and first results of a repeated reconciliation

vars == <<logs, now, today, procs, order, poll, calc>>

\* ------------------------------------------------------------------ date keys
\* a calendar day is a day number of one month; its key is the zero-padded text
\* the code compares and sorts ("2024-01-09" is <<"0", "9">>)
Digits == <<"0", "1", "2", "3", "4", "5", "6", "7", "8", "9">>
DigitValue(c) == (CHOOSE n \in 1..10 : Digits[n] = c) - 1

\* toISOString().slice(0, 10): the day of a Date as a zero-padded key
fmt(dt) == <<Digits[(dt \div 10) + 1], Digits[(dt % 10) + 1]>>

\* new Date(dstr): the day a key stands for
NewDate(dstr) == DigitValue(dstr[1]) * 10 + DigitValue(dstr[2])

\* toLocaleDateString("en-CA"): the key of the day in the user's calendar
toLocaleDateString(day) == fmt(day)

\* ------------------------------------------------------------------ store
\* getDailyLogs: query(colRef, orderBy("timestamp", "desc"))
RECURSIVE SortByTimestampDesc(_)
SortByTimestampDesc(s) ==
  IF s = <<>> THEN <<>>
  ELSE LET k == CHOOSE k \in 1..Len(s) :
                  /\ \A j \in 1..Len(s) : s[j].timestamp <= s[k].timestamp
                  /\ \A j \in 1..(k - 1) : s[j].timestamp < s[k].timestamp
       IN <<s[k]>> \o SortByTimestampDesc(SubSeq(s, 1, k - 1) \o SubSeq(s, k + 1, Len(s)))

getDailyLogs(store) == SortByTimestampDesc(store)

\* updateDailyLog: updateDoc merges the given fields and a fresh updatedAt into
\* the document; the stamp is followed on the collections whose documents carry it
updateDailyLog(store, logId, data) ==
  [store EXCEPT ![logId] = [f \in DOMAIN store[logId] |->
                              IF f = "updatedAt" THEN "serverTimestamp"
                              ELSE IF f \in DOMAIN data THEN data[f] ELSE store[logId][f]]]

\* createDailyLog: addDoc of the payload; the new id is the next position
createDailyLog(store, payload) ==
  Append(store, [payload EXCEPT !.id = Len(store) + 1])

IsMeal(l) == l.category = "meal"
Meals(s) == SelectSeq(s, IsMeal)

\* Array.prototype.find as the position of the first element satisfying P (0: none)
FindFirst(s, P(_)) ==
  IF \E k \in 1..Len(s) : P(s[k])
  THEN CHOOSE k \in 1..Len(s) : P(s[k]) /\ \A j \in 1..(k - 1) : ~P(s[j])
  ELSE 0

\* ------------------------------------------------------------------ analyzeItemsBackend matching
\* const analyzedName = normalize(analyzed.item || analyzed.name || "")
AnalyzedName(analyzed) == normalize(analyzed.name)

\* rule 1 (l.594): normalized equality on a meal
ExactMatch(currentLogs, analyzed) ==
  LET P(l) == normalize(l.item) = AnalyzedName(analyzed) /\ IsMeal(l)
      k == FindFirst(currentLogs, P)
  IN IF k = 0 THEN 0 ELSE currentLogs[k].id

\* rule 2 (l.597-601): item-<n> indexes the meals of currentLogs
PositionalMatch(currentLogs, analyzed) ==
  LET sameDateMeals == Meals(currentLogs)
  IN IF analyzed.id # None /\ analyzed.id + 1 <= Len(sameDateMeals)
     THEN sameDateMeals[analyzed.id + 1].id
     ELSE 0

\* rule 3 (l.602-606): containment either way, over all of currentLogs
SubstringMatch(currentLogs, analyzed) ==
  LET a == AnalyzedName(analyzed)
      P1(l) == Includes(normalize(l.item), a)
      P2(l) == Includes(a, normalize(l.item))
      k1 == FindFirst(currentLogs, P1)
      k2 == FindFirst(currentLogs, P2)
  IN IF a = <<>> THEN 0
     ELSE IF k1 # 0 THEN currentLogs[k1].id
     ELSE IF k2 # 0 THEN currentLogs[k2].id
     ELSE 0

\* rule 4 (l.607-610): the meal of currentLogs with the greatest timestamp
RecentMatch(currentLogs) ==
  LET meals == SortByTimestampDesc(Meals(currentLogs))
  IN IF meals # <<>> THEN meals[1].id ELSE 0

\* which rule decides (l.594-610)
BackendRule(currentLogs, analyzed) ==
  IF ExactMatch(currentLogs, analyzed) # 0 THEN "exact"
  ELSE IF PositionalMatch(currentLogs, analyzed) # 0 THEN "positional"
  ELSE IF SubstringMatch(currentLogs, analyzed) # 0 THEN "substring"
  ELSE IF RecentMatch(currentLogs) # 0 THEN "recent"
  ELSE "none"

\* the id of `match` (0: continue without an update)
BackendMatch(currentLogs, analyzed) ==
  LET r == BackendRule(currentLogs, analyzed)
  IN CASE r = "exact" -> ExactMatch(currentLogs, analyzed)
       [] r = "positional" -> PositionalMatch(currentLogs, analyzed)
       [] r = "substring" -> SubstringMatch(currentLogs, analyzed)
       [] r = "recent" -> RecentMatch(currentLogs)
       [] OTHER -> 0

\* a reconciliation that adds the analysed calories to those the entry already has
BackendUpdateAdding(match, analyzed) ==
  LET kcal == IF analyzed.calories # None THEN analyzed.calories ELSE 0
      total == IF match.calories = None THEN kcal ELSE match.calories + kcal
  IN [calories |-> total,
      macros |-> [calories_kcal |-> total, protein_g |-> analyzed.macros.protein_g],
      provenance |-> IF analyzed.id # None THEN "analyzed" ELSE "unknown"]

\* the fields written by updateDailyLog at l.615-619
BackendUpdate(match, analyzed) ==
  LET macros == analyzed.macros
      \* normalizedMacros, then ...macros spread over it
      calories_kcal == IF macros.calories_kcal # None THEN macros.calories_kcal
                       ELSE IF analyzed.calories # None THEN analyzed.calories ELSE 0
      protein_g == IF macros.protein_g # None THEN macros.protein_g ELSE 0
      fullMacros == [calories_kcal |-> calories_kcal, protein_g |-> protein_g]
  IN [calories |-> fullMacros.calories_kcal,
      macros |-> fullMacros,
      provenance |-> IF analyzed.provenance # "none" THEN analyzed.provenance
                     ELSE IF analyzed.id # None THEN "analyzed" ELSE "unknown"]

\* ------------------------------------------------------------------ handleAnalyzeToday matching
\* (analyzed.item || analyzed.name || "").toString().trim().toLowerCase()
TodayName(analyzed) == ToLowerCase(Trim(analyzed.name))

\* l.786-790: equality of trimmed lower-case texts, then meals[idx]
TodayMatch(meals, analyzed) ==
  LET P(m) == ToLowerCase(Trim(m.item)) = TodayName(analyzed)
      k == FindFirst(meals, P)
  IN IF k # 0 THEN k
     ELSE IF analyzed.id # None /\ analyzed.id + 1 <= Len(meals) THEN analyzed.id + 1
     ELSE 0

\* l.814: the first meal whose lower-case text contains the result's name
TodayFuzzy(meals, analyzed) ==
  LET P(m) == TodayName(analyzed) # <<>> /\ Includes(ToLowerCase(m.item), TodayName(analyzed))
  IN FindFirst(meals, P)

\* the position in `meals` of the entry handleAnalyzeToday updates (0: none)
TodayTarget(meals, analyzed) ==
  IF TodayMatch(meals, analyzed) # 0 THEN TodayMatch(meals, analyzed)
  ELSE TodayFuzzy(meals, analyzed)

\* an update that also writes the result's name into the entry
TodayUpdateRenaming(match, analyzed) ==
  [item |-> analyzed.name,
   calories |-> IF analyzed.calories # None THEN analyzed.calories ELSE 0,
   macros |-> analyzed.macros,
   provenance |-> match.provenance]

\* the fields written at l.808-812 (match) and l.816-820 (fuzzy)
TodayUpdate(match, analyzed) ==
  LET macros == analyzed.macros
      calories_kcal == IF macros.calories_kcal # None THEN macros.calories_kcal
                       ELSE IF analyzed.calories # None THEN analyzed.calories ELSE 0
      protein_g == IF macros.protein_g # None THEN macros.protein_g ELSE 0
  IN [calories |-> calories_kcal,
      macros |-> [calories_kcal |-> calories_kcal, protein_g |-> protein_g],
      provenance |-> IF analyzed.provenance # "none" THEN analyzed.provenance
                     ELSE match.provenance]

TodayFuzzyUpdate(fuzzy, analyzed) ==
  [calories |-> IF analyzed.calories # None THEN analyzed.calories
                ELSE IF analyzed.macros.calories_kcal # None
                     THEN analyzed.macros.calories_kcal ELSE fuzzy.calories,
   macros |-> analyzed.macros,
   provenance |-> IF analyzed.provenance # "none" THEN analyzed.provenance
                  ELSE fuzzy.provenance]

\* ------------------------------------------------------------------ handlers
\* the handlers whose invocations may overlap: the form's Add button, a quick-add
\* preset (clicked or dropped) and the analysis of today's meals
BackendHandlers == {"handleAddLog", "quickAddFood"}
Handlers == BackendHandlers \cup {"handleAnalyzeToday"}

IdleProc ==
  [pc |-> "idle", entry |-> 0, results |-> <<>>, snapshot |-> <<>>,
   i |-> 0, nAtSubmit |-> 0, applied |-> <<>>]

\* the summary job and its status poller, before a job is started. Besides the
\* locals of the code the record remembers what the properties speak of: the last
\* status response, whether every response so far (resp. every one before the last)
\* was pending, the number of delays waited, whether the submit failed, whether the
\* user left the page, whether the summary was put on screen, and the collection as
\* it was when the handler was invoked and when the job was submitted
IdlePoll ==
  [kind |-> "none", pc |-> "idle", attempt |-> 0, interval |-> 0, outcome |-> "none",
   summary |-> "none", allPending |-> TRUE, delay |-> 0,
   resp |-> "none", pendingBefore |-> TRUE, waits |-> 0, submitFailed |-> FALSE,
   cancelled |-> FALSE, shown |-> FALSE, meals |-> <<>>, invoked |-> <<>>,
   submitted |-> <<>>]

NoCalc == [pass |-> 0, input |-> <<>>, first |-> <<>>, firstApplied |-> <<>>]

Init ==
  /\ logs = <<>>
  /\ now = 1
  /\ today = 1
  /\ procs = [h \in Handlers |-> IdleProc]
  /\ order = <<>>
  /\ poll = IdlePoll
  /\ calc = NoCalc

Free(h) == procs[h].pc \in {"idle", "done"}

\* a handler that returned: only the ids it updated are remembered
Finished(applied) == [IdleProc EXCEPT !.pc = "done", !.applied = applied]

\* basePayload of handleAddLog (l.695-709) and of quickAddFood (l.517-524)
BasePayload(item, category, manualVal) ==
  [id |-> 0, item |-> item, category |-> category, quantity |-> 1,
   timestamp |-> now, date |-> toLocaleDateString(today),
   calories |-> IF category = "meal" /\ manualVal > 0 THEN manualVal ELSE None,
   manual_calories |-> IF category = "meal" /\ manualVal > 0 THEN manualVal ELSE None,
   macros |-> NoMacros, provenance |-> "none", ai_summary |-> "none"]

\* a handler that goes on to its analysis whether or not addDoc succeeded
CreateIgnoringFailure(h, payload, stored) ==
  /\ Free(h)
  /\ Len(logs) < MaxLogs
  /\ logs' = IF stored THEN createDailyLog(logs, payload) ELSE logs
  /\ procs' = [procs EXCEPT ![h] =
       IF payload.category = "meal"
       THEN [IdleProc EXCEPT !.pc = "created", !.entry = Len(logs) + 1]
       ELSE Finished(<<>>)]
  /\ now' = IF stored THEN now + 1 ELSE now
  /\ UNCHANGED <<today, order, poll, calc>>

\* a handler up to the end of its createDailyLog; `stored` is whether addDoc succeeded
Create(h, payload, stored) ==
  /\ Free(h)
  /\ Len(logs) < MaxLogs
  /\ logs' = IF stored THEN createDailyLog(logs, payload) ELSE logs
  /\ procs' = [procs EXCEPT ![h] =
       IF stored /\ payload.category = "meal"
       THEN [IdleProc EXCEPT !.pc = "created", !.entry = Len(logs) + 1]
       ELSE Finished(<<>>)]
  /\ now' = IF stored THEN now + 1 ELSE now
  /\ UNCHANGED <<today, order, poll, calc>>

\* handleAddLog up to the end of createDailyLog (l.687-723); the name field is
\* filled for a meal only, and a non-meal entry ends the handler (l.725)
handleAddLog(selectedCategory, name, manualVal, stored) ==
  /\ selectedCategory = "Meal" <=> name # <<>>
  /\ selectedCategory # "Meal" => manualVal = None
  /\ LET item == IF name # <<>> THEN name ELSE CategoryText(selectedCategory)
     IN Create("handleAddLog", BasePayload(item, CategoryLower(selectedCategory), manualVal),
               stored)

\* quickAddFood up to the end of createDailyLog (l.515-525)
quickAddFood(preset, stored) ==
  Create("quickAddFood", BasePayload(preset, "meal", None), stored)

\* the request of h becomes the most recent one
Submitted(h) == LET other(q) == q # h IN Append(SelectSeq(order, other), h)

\* analyzeItemsBackend, the fetch of run_nutrients being sent (l.563-567)
SubmitBackend(h) ==
  /\ h \in BackendHandlers
  /\ procs[h].pc = "created"
  /\ procs' = [procs EXCEPT ![h].pc = "inflight", ![h].nAtSubmit = Len(logs)]
  /\ order' = Submitted(h)
  /\ UNCHANGED <<logs, now, today, poll, calc>>

\* one result of the service for one of nItems submitted items
Result(name, id) ==
  [name |-> name, id |-> id, calories |-> ServiceCalories(name),
   macros |-> [calories_kcal |-> None, protein_g |-> ServiceProtein(name)],
   provenance |-> "none"]

Results(nItems) == {Result(n, id) : n \in ResultNames, id \in {None} \cup 0..(nItems - 1)}

\* the service answers one result per submitted item
ResultLists(nItems) == [1..nItems -> Results(nItems)]

\* analyzeItemsBackend, the response arriving (l.568-576): a failure ends the job,
\* a result list is followed by the read of currentLogs
RespondBackend(h, ok, results) ==
  /\ h \in BackendHandlers
  /\ procs[h].pc = "inflight"
  /\ procs' = [procs EXCEPT ![h] =
       IF ok THEN [procs[h] EXCEPT !.pc = "loop", !.results = results,
                                   !.snapshot = getDailyLogs(logs), !.i = 1]
       ELSE Finished(<<>>)]
  /\ UNCHANGED <<logs, now, today, order, poll, calc>>

\* the id analyzeItemsBackend updates for its current result (0: none)
BackendTarget(h) == BackendMatch(procs[h].snapshot, procs[h].results[procs[h].i])

EntryOf(snapshot, id) == snapshot[CHOOSE k \in 1..Len(snapshot) : snapshot[k].id = id]

\* a loop that returns at the first result it does not write
AdvanceAbortingOnMiss(h, written) ==
  LET applied == IF written # 0 THEN Append(procs[h].applied, written) ELSE procs[h].applied
  IN [procs EXCEPT ![h] =
        IF written = 0 \/ procs[h].i + 1 > Len(procs[h].results) THEN Finished(applied)
        ELSE [procs[h] EXCEPT !.i = procs[h].i + 1, !.applied = applied]]

\* the loop goes to its next result, or the handler returns
Advance(h, written) ==
  LET applied == IF written # 0 THEN Append(procs[h].applied, written) ELSE procs[h].applied
  IN [procs EXCEPT ![h] =
        IF procs[h].i + 1 > Len(procs[h].results) THEN Finished(applied)
        ELSE [procs[h] EXCEPT !.i = procs[h].i + 1, !.applied = applied]]

\* one iteration of the loop of analyzeItemsBackend (l.580-623); `updated` is
\* whether updateDailyLog succeeded (its failure is caught at l.620)
ReconcileBackend(h, updated) ==
  /\ h \in BackendHandlers
  /\ procs[h].pc = "loop"
  /\ LET analyzed == procs[h].results[procs[h].i]
         id == BackendTarget(h)
         write == id # 0 /\ updated
     IN /\ logs' = IF write
                   THEN updateDailyLog(logs, id,
                                       BackendUpdate(EntryOf(procs[h].snapshot, id), analyzed))
                   ELSE logs
        /\ procs' = Advance(h, IF write THEN id ELSE 0)
  /\ UNCHANGED <<now, today, order, poll, calc>>

\* the orders in which a query without orderBy may return the documents of s
Orderings(s) ==
  {o \in [1..Len(s) -> 1..Len(s)] : \A a, b \in 1..Len(s) : a # b => o[a] # o[b]}

TodaysMeals ==
  LET P(l) == l.date = toLocaleDateString(today) /\ l.category = "meal" IN SelectSeq(logs, P)

\* handleAnalyzeToday from the query of today's meals to the fetch of
\* run_nutrients being sent (l.743-773); with no meal it returns at l.756-760
TodayStart(o) ==
  /\ Free("handleAnalyzeToday")
  /\ TodaysMeals # <<>>
  /\ o \in Orderings(TodaysMeals)
  /\ LET meals == [k \in 1..Len(TodaysMeals) |-> TodaysMeals[o[k]]]
     IN procs' = [procs EXCEPT !["handleAnalyzeToday"] =
          [IdleProc EXCEPT !.pc = "inflight", !.snapshot = meals, !.nAtSubmit = Len(logs)]]
  /\ order' = Submitted("handleAnalyzeToday")
  /\ UNCHANGED <<logs, now, today, calc>>

\* handleAnalyzeToday invoked on its own
handleAnalyzeToday(o) == TodayStart(o) /\ UNCHANGED poll

\* a response whose status is not looked at
RespondTodayIgnoringStatus(ok, results) ==
  LET h == "handleAnalyzeToday"
  IN /\ procs[h].pc = "inflight"
     /\ procs' = [procs EXCEPT ![h] =
          [procs[h] EXCEPT !.pc = "loop",
                           !.results = [k \in 1..Len(procs[h].snapshot) |-> Result(rice, None)],
                           !.i = 1]]
     /\ UNCHANGED <<logs, now, today, order, poll, calc>>

\* handleAnalyzeToday, the response arriving (l.775-781)
RespondToday(ok, results) ==
  LET h == "handleAnalyzeToday"
  IN /\ procs[h].pc = "inflight"
     /\ procs' = [procs EXCEPT ![h] =
          IF ok THEN [procs[h] EXCEPT !.pc = "loop", !.results = results, !.i = 1]
          ELSE Finished(<<>>)]
     /\ UNCHANGED <<logs, now, today, order, poll, calc>>

\* one iteration of the loop of handleAnalyzeToday (l.783-826); `updated` is
\* whether updateDailyLog succeeded (its failure is caught at l.823)
ReconcileToday(updated) ==
  LET h == "handleAnalyzeToday"
      analyzed == procs[h].results[procs[h].i]
      meals == procs[h].snapshot
      k == TodayTarget(meals, analyzed)
      write == k # 0 /\ updated
      data == IF TodayMatch(meals, analyzed) # 0 THEN TodayUpdate(meals[k], analyzed)
              ELSE TodayFuzzyUpdate(meals[k], analyzed)
  IN /\ procs[h].pc = "loop"
     /\ logs' = IF write THEN updateDailyLog(logs, meals[k].id, data) ELSE logs
     /\ procs' = Advance(h, IF write THEN meals[k].id ELSE 0)
     /\ UNCHANGED <<now, today, order, poll, calc>>

\* the answers to the calorie prompt of handleEdit: cancel, blank, a number
CaloriePrompts == {"cancel", "blank", "number"}

\* handleEdit (l.948-980) with the name and quantity prompts left at their defaults
handleEdit(id, newCalories) ==
  /\ id \in 1..Len(logs)
  /\ LET log == logs[id]
         calNum == 300
         updateFields ==
           IF log.category = "meal" /\ newCalories = "blank"
           THEN [item |-> log.item, quantity |-> log.quantity,
                 manual_calories |-> None, calories |-> None]
           ELSE IF log.category = "meal" /\ newCalories = "number"
           THEN [item |-> log.item, quantity |-> log.quantity,
                 manual_calories |-> calNum, calories |-> calNum]
           ELSE [item |-> log.item, quantity |-> log.quantity]
     IN logs' = updateDailyLog(logs, id, updateFields)
  /\ UNCHANGED <<now, today, procs, order, poll, calc>>

\* midnight passes in the user's calendar
NextDay ==
  /\ today < MaxDay
  /\ today' = today + 1
  /\ UNCHANGED <<logs, now, procs, order, poll, calc>>

\* the handlers of the daily-log page that add and edit entries, overlapping freely
Next ==
  \/ \E c \in Categories, n \in MealNames \cup {<<>>}, m \in ManualInputs, stored \in BOOLEAN :
        handleAddLog(c, n, m, stored)
  \/ \E n \in QuickNames, stored \in BOOLEAN : quickAddFood(n, stored)
  \/ \E h \in BackendHandlers : SubmitBackend(h)
  \/ \E h \in BackendHandlers, ok \in BOOLEAN, r \in ResultLists(1) : RespondBackend(h, ok, r)
  \/ \E h \in BackendHandlers, updated \in BOOLEAN : ReconcileBackend(h, updated)
  \/ \E id \in 1..MaxLogs, c \in CaloriePrompts : handleEdit(id, c)
  \/ NextDay

Spec == Init /\ [][Next]_vars

\* the form's Add button while run_nutrients answers it with an error, and the
\* analysis of today's meals
NextToday ==
  \/ \E c \in Categories, n \in MealNames \cup {<<>>}, m \in ManualInputs, stored \in BOOLEAN :
        handleAddLog(c, n, m, stored)
  \/ SubmitBackend("handleAddLog")
  \/ RespondBackend("handleAddLog", FALSE, <<>>)
  \/ \E o \in Orderings(TodaysMeals) : handleAnalyzeToday(o)
  \/ \E ok \in BOOLEAN :
        \E r \in ResultLists(Len(procs["handleAnalyzeToday"].snapshot)) : RespondToday(ok, r)
  \/ \E updated \in BOOLEAN : ReconcileToday(updated)

SpecToday == Init /\ [][NextToday]_vars

\* ------------------------------------------------------------------ a repeated reconciliation
MaxResults == 2

\* an entry as createDailyLog stored it at time k
StoredEntry(k, item, category) ==
  [id |-> k, item |-> item, category |-> category, quantity |-> 1, timestamp |-> k,
   date |-> toLocaleDateString(1), calories |-> None, manual_calories |-> None, macros |-> NoMacros,
   provenance |-> "none", ai_summary |-> "none"]

StoredKinds == {<<Rice, "meal">>, <<dal, "meal">>, <<Water, "water">>}

ReconcileStores ==
  UNION {{[k \in 1..n |-> StoredEntry(k, f[k][1], f[k][2])] : f \in [1..n -> StoredKinds]} :
         n \in 1..MaxLogs}

ReconcileInputs == UNION {ResultLists(n) : n \in 1..MaxResults}

\* a store, and a result list on its way to analyzeItemsBackend
InitReconcile ==
  /\ logs \in ReconcileStores
  /\ now = Len(logs) + 1
  /\ today = 1
  /\ procs = [h \in Handlers |->
       IF h = "quickAddFood"
       THEN [IdleProc EXCEPT !.pc = "inflight", !.entry = Len(logs), !.nAtSubmit = Len(logs)]
       ELSE IdleProc]
  /\ order = <<"quickAddFood">>
  /\ poll = IdlePoll
  /\ \E input \in ReconcileInputs : calc = [NoCalc EXCEPT !.input = input]

\* the same result list is sent through analyzeItemsBackend once more
Reapply ==
  /\ calc.pass = 0
  /\ procs["quickAddFood"].pc = "done"
  /\ calc' = [calc EXCEPT !.pass = 1, !.first = logs,
                          !.firstApplied = procs["quickAddFood"].applied]
  /\ procs' = [procs EXCEPT !["quickAddFood"] = [IdleProc EXCEPT !.pc = "inflight"]]
  /\ UNCHANGED <<logs, now, today, order, poll>>

NextReconcile ==
  \/ RespondBackend("quickAddFood", TRUE, calc.input)
  \/ ReconcileBackend("quickAddFood", TRUE)
  \/ Reapply

SpecReconcile == InitReconcile /\ [][NextReconcile]_vars

\* ------------------------------------------------------------------ the summary jobs
\* the pollers: pollForSummary as handleSummarizeToday calls it (DailyLogPage.jsx),
\* pollForSummary as generateSummary calls it (ActivityGraph.jsx), and the loop of
\* generateDailySummary (firebaseHelpers)
Pollers == {"pollForSummary", "generateSummary", "generateDailySummary"}

\* the call sites that submit a summary job: the pollers' and fetchDailySummary (App.js)
Submitters == Pollers \cup {"fetchDailySummary"}

\* { interval: 1500, maxAttempts: 30 } at the call in handleSummarizeToday
SummarizeInterval == 1500
SummarizeMaxAttempts == 30
\* { interval: 1200, maxAttempts: 25 } at the call in generateSummary
GraphInterval == 1200
GraphMaxAttempts == 25
\* pollIntervalMs = 1500, maxAttempts = 30 of generateDailySummary
PollIntervalMs == 1500
GenerateMaxAttempts == 30
\* the cap of the interval, and the bound of the jitter
IntervalCap == 10000
JitterBound == 500

\* fetchDailySummary asks for the status once
maxAttempts(kind) ==
  CASE kind = "pollForSummary" -> SummarizeMaxAttempts
    [] kind = "generateSummary" -> GraphMaxAttempts
    [] kind = "generateDailySummary" -> GenerateMaxAttempts
    [] OTHER -> 1

firstInterval(kind) ==
  CASE kind = "pollForSummary" -> SummarizeInterval
    [] kind = "generateSummary" -> GraphInterval
    [] OTHER -> PollIntervalMs

\* a loop that polls once more than maxAttempts
LoopContinuesOffByOne(attempt, max) == attempt <= max

\* while (attempt < maxAttempts)
LoopContinues(attempt, max) == attempt < max

\* what one request may bring: a pending body, a complete body with its summary,
\* a complete body without one, a non-success status, a success status whose body
\* is not JSON, a failed fetch
StatusResponses ==
  {"pending", "complete", "no_summary", "http_error", "malformed", "fetch_error"}

\* the responses at which fetch or res.json() throws
Throwing == {"malformed", "fetch_error"}

\* a status response that never ends the poll
CompletesNever(resp) == FALSE

\* json.summary of a status response
SummaryOf(resp) == IF resp = "complete" THEN "summary" ELSE "none"

\* a poll that ends at any body whose status is complete
CompletesWithoutSummary(resp) == resp \in {"complete", "no_summary"}

\* json && json.status === "complete" && json.summary
Completes(resp) == resp = "complete"

\* Math.min(10000, Math.round(interval * 1.4))
NextInterval(interval) ==
  LET r == (interval * 14 + 5) \div 10
  IN IF r < IntervalCap THEN r ELSE IntervalCap

\* the documents of today, whatever their category (l.866-869)
TodaysLogs == LET P(l) == l.date = toLocaleDateString(today) IN SelectSeq(logs, P)

\* l.877: some entry has neither calories nor macros
needsAnalysis(rows) ==
  \E k \in 1..Len(rows) : rows[k].calories \in {None, 0} /\ rows[k].macros = NoMacros

\* handleSummarizeToday up to its call of handleAnalyzeToday or to its submit
\* (l.862-878); with no entry today it returns at l.871-875
handleSummarizeToday ==
  /\ poll.pc = "idle"
  /\ TodaysLogs # <<>>
  /\ poll' = [IdlePoll EXCEPT !.kind = "pollForSummary",
                              !.pc = IF needsAnalysis(TodaysLogs) THEN "analyze" ELSE "submit",
                              !.meals = [k \in 1..Len(TodaysLogs) |-> TodaysLogs[k].id],
                              !.invoked = logs]
  /\ UNCHANGED <<logs, now, today, procs, order, calc>>

\* l.878: handleAnalyzeToday is entered and sends run_nutrients
SummarizeAnalyze(o) ==
  /\ poll.pc = "analyze"
  /\ TodayStart(o)
  /\ poll' = [poll EXCEPT !.pc = "analyzing"]

\* l.878: handleAnalyzeToday finds no meal today and returns (l.756-760)
SummarizeNoMeals ==
  /\ poll.pc = "analyze"
  /\ TodaysMeals = <<>>
  /\ poll' = [poll EXCEPT !.pc = "submit"]
  /\ UNCHANGED <<logs, now, today, procs, order, calc>>

\* handleAnalyzeToday, called by handleSummarizeToday, receives its response
SummarizeRespond(ok, results) == poll.pc = "analyzing" /\ RespondToday(ok, results)

\* handleAnalyzeToday, called by handleSummarizeToday, reconciles one result
SummarizeReconcile(updated) == poll.pc = "analyzing" /\ ReconcileToday(updated)

\* l.878: handleAnalyzeToday returned, with or without success (l.830-834)
SummarizeAnalyzed ==
  /\ poll.pc = "analyzing"
  /\ procs["handleAnalyzeToday"].pc = "done"
  /\ poll' = [poll EXCEPT !.pc = "submit"]
  /\ UNCHANGED <<logs, now, today, procs, order, calc>>

\* the call site is about to send its submit request; generateSummary returns
\* before it when no meal was logged today (ActivityGraph.jsx l.341)
CanSubmit(kind) ==
  CASE kind = "pollForSummary" -> poll.pc = "submit"
    [] kind = "generateSummary" -> poll.pc = "idle" /\ TodaysMeals # <<>>
    [] OTHER -> poll.pc = "idle"

\* the job as its call site has it when the submit request is sent
AtSubmit(kind) ==
  [(IF kind = "pollForSummary" THEN poll ELSE IdlePoll) EXCEPT
     !.kind = kind, !.interval = firstInterval(kind), !.submitted = logs]

\* the submit request succeeded and the status requests begin
StartPoll(kind) ==
  /\ CanSubmit(kind)
  /\ poll' = [AtSubmit(kind) EXCEPT !.pc = "loop"]
  /\ UNCHANGED <<logs, now, today, procs, order, calc>>

\* the answers of a failed submit: a non-success status, a failed fetch
SubmitFailures == {"http_error", "fetch_error"}

\* the submit request failed. handleSummarizeToday (l.885), generateSummary (l.364)
\* and generateDailySummary (l.188) throw into their catch; fetchDailySummary
\* (App.js l.726-735) does not read the status of its submit and goes on
SubmitFails(kind, resp) ==
  /\ CanSubmit(kind)
  /\ poll' = IF kind = "fetchDailySummary" /\ resp = "http_error"
             THEN [AtSubmit(kind) EXCEPT !.pc = "loop", !.submitFailed = TRUE]
             ELSE [AtSubmit(kind) EXCEPT !.pc = "returned", !.submitFailed = TRUE,
                                         !.outcome = "failed"]
  /\ UNCHANGED <<logs, now, today, procs, order, calc>>

\* one status request and its answer (DailyLogPage.jsx l.845-855, ActivityGraph.jsx
\* l.124-136, firebaseHelpers l.192-200, App.js l.738-748)
PollStatus(resp) ==
  /\ poll.pc = "loop"
  /\ LoopContinues(poll.attempt, maxAttempts(poll.kind))
  /\ LET counted == [poll EXCEPT !.attempt = poll.attempt + 1,
                                 !.resp = resp,
                                 !.pendingBefore = poll.allPending,
                                 !.allPending = poll.allPending /\ resp = "pending"]
     IN poll' =
          IF Completes(resp)
          THEN [counted EXCEPT !.pc = "returned", !.outcome = "complete",
                               !.summary = SummaryOf(resp)]
          ELSE IF resp \in Throwing /\ poll.kind \in {"generateDailySummary", "fetchDailySummary"}
          THEN \* no try inside the loop: the catch of the function ends it
               [counted EXCEPT !.pc = "returned", !.outcome = "failed"]
          ELSE IF poll.kind = "fetchDailySummary"
          THEN [counted EXCEPT !.pc = "returned"]
          ELSE [counted EXCEPT !.pc = "wait"]
  /\ UNCHANGED <<logs, now, today, procs, order, calc>>

\* the delay before the next request (l.856-857, resp. firebaseHelpers l.201)
PollWait(jitter) ==
  /\ poll.pc = "wait"
  /\ poll' = IF poll.kind = "generateDailySummary"
             THEN [poll EXCEPT !.pc = "loop", !.delay = PollIntervalMs,
                               !.waits = poll.waits + 1, !.resp = "none"]
             ELSE [poll EXCEPT !.pc = "loop", !.delay = poll.interval + jitter,
                               !.interval = NextInterval(poll.interval),
                               !.waits = poll.waits + 1, !.resp = "none"]
  /\ UNCHANGED <<logs, now, today, procs, order, calc>>

\* the loop is left: pollForSummary throws (l.859), generateDailySummary returns
\* null (l.203-204)
PollTimeout ==
  /\ poll.pc = "loop"
  /\ poll.kind \in Pollers
  /\ ~LoopContinues(poll.attempt, maxAttempts(poll.kind))
  /\ poll' = IF poll.kind = "generateDailySummary"
             THEN [poll EXCEPT !.pc = "returned", !.outcome = "timeout"]
             ELSE [poll EXCEPT !.pc = "threw", !.outcome = "timeout"]
  /\ UNCHANGED <<logs, now, today, procs, order, calc>>

\* the caller catches what pollForSummary threw: handleSummarizeToday goes on
\* without a summary (l.887-898), generateSummary alerts (ActivityGraph.jsx l.380-382)
CatchTimeout ==
  /\ poll.pc = "threw"
  /\ poll' = [poll EXCEPT !.pc = "caught"]
  /\ UNCHANGED <<logs, now, today, procs, order, calc>>

\* a summary that never needs a result
MayApplyAlways(outcome) == TRUE

\* l.894: if (!summary) return
MayApply(outcome) == outcome = "complete"

\* the caller uses the summary: handleSummarizeToday shows it and attaches it to
\* the entries it read at its start (l.900-926; `attached` are the entries whose
\* updateDailyLog succeeded), generateSummary and fetchDailySummary show it
RECURSIVE Attach(_, _, _)
Attach(store, ids, attached) ==
  IF ids = <<>> THEN store
  ELSE Attach(IF Head(ids) \in attached
              THEN updateDailyLog(store, Head(ids), [ai_summary |-> poll.summary])
              ELSE store,
              Tail(ids), attached)

ApplySummary(attached) ==
  /\ poll.pc \in {"returned", "caught"}
  /\ poll.kind \in Submitters \ {"generateDailySummary"}
  /\ MayApply(poll.outcome)
  /\ ~poll.shown
  /\ attached \subseteq {poll.meals[k] : k \in 1..Len(poll.meals)}
  /\ poll.kind # "pollForSummary" => attached = {}
  /\ logs' = Attach(logs, poll.meals, attached)
  /\ poll' = [poll EXCEPT !.shown = TRUE]
  /\ UNCHANGED <<now, today, procs, order, calc>>

\* the user leaves the page while the poller waits: nothing in the code reads it
NavigateAway ==
  /\ poll.pc = "wait"
  /\ ~poll.cancelled
  /\ poll' = [poll EXCEPT !.cancelled = TRUE]
  /\ UNCHANGED <<logs, now, today, procs, order, calc>>

\* the caller is done with the outcome; a new job may be started
PollReset ==
  /\ poll.pc \in {"returned", "caught"}
  /\ poll' = IdlePoll
  /\ UNCHANGED <<logs, now, today, procs, order, calc>>

\* the answer of run_nutrients to the analysis handleSummarizeToday asks for: one
\* result per submitted meal, named rice and identified by its position
SummaryResults(nItems) == [k \in 1..nItems |-> Result(rice, k - 1)]

\* the collections a summary is asked for: meals and water logged today
SummaryStores ==
  UNION {{[k \in 1..n |-> StoredEntry(k, f[k][1], f[k][2])] :
            f \in [1..n -> {<<Rice, "meal">>, <<Water, "water">>}]} : n \in 1..MaxLogs}

\* a collection of entries logged today
InitPoll ==
  /\ logs \in SummaryStores
  /\ now = Len(logs) + 1
  /\ today = 1
  /\ procs = [h \in Handlers |-> IdleProc]
  /\ order = <<>>
  /\ poll = IdlePoll
  /\ calc = NoCalc

NextPoll ==
  \/ handleSummarizeToday
  \/ \E o \in Orderings(TodaysMeals) : SummarizeAnalyze(o)
  \/ SummarizeNoMeals
  \/ \E ok \in BOOLEAN :
        SummarizeRespond(ok, SummaryResults(Len(procs["handleAnalyzeToday"].snapshot)))
  \/ SummarizeReconcile(TRUE)
  \/ SummarizeAnalyzed
  \/ \E kind \in Submitters : StartPoll(kind)
  \/ \E kind \in Submitters, resp \in SubmitFailures : SubmitFails(kind, resp)
  \/ \E resp \in StatusResponses : PollStatus(resp)
  \/ \E jitter \in {0, JitterBound - 1} : PollWait(jitter)
  \/ PollTimeout
  \/ CatchTimeout
  \/ \E attached \in {{}, 1..Len(logs)} : ApplySummary(attached)
  \/ NavigateAway
  \/ PollReset

SpecPoll == InitPoll /\ [][NextPoll]_vars

\* a single entry logged today
InitPollLive == InitPoll /\ Len(logs) = 1

\* every request is answered and every timer fires
SpecPollLive == InitPollLive /\ [][NextPoll]_vars /\ WF_vars(NextPoll)

\* ------------------------------------------------------------------ streaks
MaxStreakLogs == 3
MaxStreakDays == 4

\* the calendar days of the entries: 08 .. of one month, so that the keys pass
\* from 09 to 10
StreakDays == 8..(7 + MaxStreakDays)

\* the order of Array.prototype.sort() on strings
StringLess(a, b) ==
  \E k \in 1..Len(a) :
    /\ k <= Len(b)
    /\ \A j \in 1..(k - 1) : a[j] = b[j]
    /\ DigitValue(a[k]) < DigitValue(b[k])

\* Array.from(datesSet).sort()
RECURSIVE SortStrings(_)
SortStrings(set) ==
  IF set = {} THEN <<>>
  ELSE LET least == CHOOSE d \in set : \A e \in set \ {d} : StringLess(d, e)
       IN <<least>> \o SortStrings(set \ {least})

\* the hours between the user's clock and UTC move the UTC day of `new Date()`
\* to the day before or after the local one
Zones == {-1, 0, 1}

\* new Date() read through toISOString: the day in UTC
UtcToday == today + calc.zone

\* rows whose category is meal: (r.category || "meal") === "meal"
MealDates(rows) == {rows[k].date : k \in {j \in 1..Len(rows) : rows[j].category = "meal"}}

\* the dates of all rows (computeStreak does not look at the category)
AllDates(rows) == {rows[k].date : k \in 1..Len(rows)}

\* the walk back from `check` while the key of the day is present
\* (App.js l.786-797, firebaseHelpers l.474-479)
RECURSIVE WalkBack(_, _)
WalkBack(days, check) ==
  IF fmt(check) \in days THEN 1 + WalkBack(days, check - 1) ELSE 0

\* ActivityGraph.jsx l.84: if (streak > 365) break
StreakCap == 365

\* the loop of computeStreak (ActivityGraph.jsx l.78-85)
RECURSIVE StreakLoop(_, _, _)
StreakLoop(set, i, streak) ==
  IF fmt(UtcToday - i) \in set
  THEN IF streak + 1 > StreakCap THEN streak + 1 ELSE StreakLoop(set, i + 1, streak + 1)
  ELSE streak

\* a scan that joins any later day to the run
IsLaterDay(d, prev) == NewDate(d) > NewDate(prev)

\* a scan that never joins two days
IsNoDay(d, prev) == FALSE

\* App.js l.808-809: the difference of the two dates is one day
IsNextDay(d, prev) == NewDate(d) - NewDate(prev) = 1

\* the scan of ascDates from position k on (App.js l.802-817)
RECURSIVE BestScan(_, _, _, _)
BestScan(ascDates, k, run, best) ==
  IF k > Len(ascDates) THEN best
  ELSE LET r == IF k = 1 THEN 1
                ELSE IF IsNextDay(ascDates[k], ascDates[k - 1]) THEN run + 1 ELSE 1
       IN BestScan(ascDates, k + 1, r, IF r > best THEN r ELSE best)

\* no aggregator has run: the result of a streak function, of today's totals and
\* of the week's calories
NoStreak ==
  [fn |-> "none", zone |-> 0, current |-> None, best |-> None,
   totals |-> <<>>, rows |-> {}, week |-> <<>>]

\* an entry of the given category logged on the given day
StreakEntry(k, category, day) ==
  [StoredEntry(k, IF category = "meal" THEN Rice ELSE Water, category) EXCEPT !.date = fmt(day)]

StreakStores ==
  UNION {{[k \in 1..n |-> StreakEntry(k, f[k][1], f[k][2])] :
            f \in [1..n -> {"meal", "water"} \X StreakDays]} : n \in 0..MaxStreakLogs}

\* a collection, a local day and a distance of the user's clock to UTC
InitStreak ==
  /\ logs \in StreakStores
  /\ now = Len(logs) + 1
  /\ today \in StreakDays
  /\ procs = [h \in Handlers |-> IdleProc]
  /\ order = <<>>
  /\ poll = IdlePoll
  /\ \E z \in Zones : calc = [NoStreak EXCEPT !.zone = z]

\* computeStreaksFromLogs (App.js l.764-820)
computeStreaksFromLogs ==
  /\ calc.fn = "none"
  /\ LET datesSet == MealDates(logs)
     IN calc' = IF datesSet = {}
                THEN [calc EXCEPT !.fn = "computeStreaksFromLogs", !.current = 0, !.best = 0]
                ELSE [calc EXCEPT !.fn = "computeStreaksFromLogs",
                                  !.current = WalkBack(datesSet, UtcToday),
                                  !.best = BestScan(SortStrings(datesSet), 1, 0, 0)]
  /\ UNCHANGED <<logs, now, today, procs, order, poll>>

\* calcStreakFromLogsRange (firebaseHelpers l.467-481)
calcStreakFromLogsRange ==
  /\ calc.fn = "none"
  /\ calc' = [calc EXCEPT !.fn = "calcStreakFromLogsRange",
                          !.current = WalkBack(MealDates(logs), UtcToday)]
  /\ UNCHANGED <<logs, now, today, procs, order, poll>>

\* computeStreak (ActivityGraph.jsx l.72-87)
computeStreak ==
  /\ calc.fn = "none"
  /\ calc' = [calc EXCEPT !.fn = "computeStreak",
                          !.current = StreakLoop(AllDates(logs), 0, 0)]
  /\ UNCHANGED <<logs, now, today, procs, order, poll>>

NextStreak ==
  \/ computeStreaksFromLogs
  \/ calcStreakFromLogsRange
  \/ computeStreak

SpecStreak == InitStreak /\ [][NextStreak]_vars

\* ------------------------------------------------------------------ daily totals
MaxTotalsLogs == 2

\* obj.key of JavaScript: undefined for a key the object does not have
Field(obj, key) == IF key \in DOMAIN obj THEN obj[key] ELSE None

\* obj.k1 ?? obj.k2 ?? ... ?? 0, from the k-th key on
RECURSIVE Coalesce(_, _, _)
Coalesce(obj, keys, k) ==
  IF k > Len(keys) THEN 0
  ELSE IF Field(obj, keys[k]) # None THEN Field(obj, keys[k])
  ELSE Coalesce(obj, keys, k + 1)

\* extractMealMacros (App.js l.207-221)
extractMealMacros(macros) ==
  [protein |-> Coalesce(macros, <<"protein_g", "total_protein", "protein">>, 1),
   carbs |-> Coalesce(macros, <<"total_carbohydrate_g", "total_carbs", "carbs_g", "carbs">>, 1),
   fats |-> Coalesce(macros, <<"total_fat_g", "total_fat", "fats">>, 1)]

\* extractMacros (ActivityGraph.jsx l.89-117)
extractMacros(macros) ==
  [protein |-> Coalesce(macros, <<"protein_g", "protein", "total_protein", "proteinContent">>, 1),
   carbs |-> Coalesce(macros, <<"total_carbohydrate_g", "carbs", "total_carbs",
                               "carbohydrates">>, 1),
   fats |-> Coalesce(macros, <<"total_fat_g", "fats", "fat", "total_fat">>, 1)]

ZeroTotals == [calories |-> 0, protein |-> 0, carbs |-> 0, fats |-> 0]

\* totals after one more row: its calories and the macros extracted from it
AddRow(totals, cal, m) ==
  [calories |-> totals.calories + cal, protein |-> totals.protein + m.protein,
   carbs |-> totals.carbs + m.carbs, fats |-> totals.fats + m.fats]

\* rows.forEach of App.js l.639-650, from the k-th row on; `day` is the key of today
RECURSIVE AppTotals(_, _, _, _)
AppTotals(rows, day, k, totals) ==
  IF k > Len(rows) THEN totals
  ELSE LET l == rows[k]
       IN IF l.date # day \/ l.category # "meal" THEN AppTotals(rows, day, k + 1, totals)
          ELSE AppTotals(rows, day, k + 1,
                         AddRow(totals,
                                IF l.calories # None THEN l.calories
                                ELSE Coalesce(l.macros, <<"calories_kcal">>, 1),
                                extractMealMacros(l.macros)))

\* todayRows of App.js l.649: the rows that were counted (those todayTotals of
\* ActivityGraph.jsx passes at l.311 are found by the same test)
AppRows(rows, day) ==
  {rows[k].id : k \in {j \in 1..Len(rows) : rows[j].date = day /\ rows[j].category = "meal"}}

\* logs.forEach of todayTotals (ActivityGraph.jsx l.307-323), from the k-th row on;
\* the categories of the store are lower-case texts, which toLowerCase leaves alone
RECURSIVE GraphTotals(_, _, _, _)
GraphTotals(rows, todayKey, k, totals) ==
  IF k > Len(rows) THEN totals
  ELSE LET l == rows[k]
       IN IF l.date # todayKey \/ l.category # "meal"
          THEN GraphTotals(rows, todayKey, k + 1, totals)
          ELSE GraphTotals(rows, todayKey, k + 1,
                           AddRow(totals,
                                  IF l.calories # None THEN l.calories
                                  ELSE Coalesce(l.macros, <<"calories_kcal", "energy_kcal">>, 1),
                                  extractMacros(l.macros)))

\* last7Days (ActivityGraph.jsx l.41-52): the keys of the seven days up to today,
\* read through toISOString
last7Days == {fmt(UtcToday - i) : i \in 0..6}

\* the calories aggregateWeek (ActivityGraph.jsx l.54-70) adds to the day `key`:
\* Number(l.calories) || 0 of every row of that date, from the k-th row on
RECURSIVE WeekCalories(_, _, _)
WeekCalories(rows, key, k) ==
  IF k > Len(rows) THEN 0
  ELSE (IF rows[k].date = key /\ rows[k].calories # None THEN rows[k].calories ELSE 0)
       + WeekCalories(rows, key, k + 1)

\* what the analysis wrote into an entry: normalizedMacros of
\* DailyLogPage.jsx l.586-592 for one serving of rice
AnalysedMacros ==
  [calories_kcal |-> ServiceCalories(rice), protein_g |-> ServiceProtein(rice),
   total_carbohydrate_g |-> 28, total_fat_g |-> 1]

\* an entry of a day, analysed or not. An entry of another category may carry
\* calories too: the substring rule of analyzeItemsBackend (l.604-605) does not
\* look at the category
TotalsEntry(k, category, day, analysed) ==
  IF analysed
  THEN [StreakEntry(k, category, day) EXCEPT !.calories = AnalysedMacros.calories_kcal,
                                             !.macros = AnalysedMacros,
                                             !.provenance = "analyzed"]
  ELSE StreakEntry(k, category, day)

TotalsStores ==
  UNION {{[k \in 1..n |-> TotalsEntry(k, f[k][1], f[k][2], f[k][3])] :
            f \in [1..n -> {"meal", "water"} \X StreakDays \X BOOLEAN]} :
         n \in 0..MaxTotalsLogs}

\* a collection, a local day and a distance of the user's clock to UTC
InitTotals ==
  /\ logs \in TotalsStores
  /\ now = Len(logs) + 1
  /\ today \in StreakDays
  /\ procs = [h \in Handlers |-> IdleProc]
  /\ order = <<>>
  /\ poll = IdlePoll
  /\ \E z \in Zones : calc = [NoStreak EXCEPT !.zone = z]

\* today's totals of the personalization effect of MainApp (App.js l.635-657)
MainAppTotals ==
  /\ calc.fn = "none"
  /\ calc' = [calc EXCEPT !.fn = "MainApp",
                          !.totals = AppTotals(logs, toLocaleDateString(today), 1, ZeroTotals),
                          !.rows = AppRows(logs, toLocaleDateString(today))]
  /\ UNCHANGED <<logs, now, today, procs, order, poll>>

\* todayTotals (ActivityGraph.jsx l.304-331) with todayKey of l.286
todayTotals ==
  /\ calc.fn = "none"
  /\ calc' = [calc EXCEPT !.fn = "todayTotals",
                          !.totals = GraphTotals(logs, fmt(UtcToday), 1, ZeroTotals),
                          !.rows = AppRows(logs, fmt(UtcToday))]
  /\ UNCHANGED <<logs, now, today, procs, order, poll>>

\* aggregateWeek (ActivityGraph.jsx l.54-70)
aggregateWeek ==
  /\ calc.fn = "none"
  /\ calc' = [calc EXCEPT !.fn = "aggregateWeek",
                          !.week = [key \in last7Days |-> WeekCalories(logs, key, 1)]]
  /\ UNCHANGED <<logs, now, today, procs, order, poll>>

NextTotals ==
  \/ MainAppTotals
  \/ todayTotals
  \/ aggregateWeek

SpecTotals == InitTotals /\ [][NextTotals]_vars

\* ------------------------------------------------------------------ a meal logged now
\* an empty collection, a local day and a distance of the user's clock to UTC
InitNow ==
  /\ logs = <<>>
  /\ now = 1
  /\ today \in StreakDays
  /\ procs = [h \in Handlers |-> IdleProc]
  /\ order = <<>>
  /\ poll = IdlePoll
  /\ \E z \in Zones : calc = [NoStreak EXCEPT !.zone = z]

\* entries are added, run_nutrients answers with an error, and one of the
\* aggregators of today is evaluated at some instant
NextNow ==
  \/ \E c \in Categories, n \in MealNames \cup {<<>>}, m \in ManualInputs, stored \in BOOLEAN :
        handleAddLog(c, n, m, stored)
  \/ \E n \in QuickNames, stored \in BOOLEAN : quickAddFood(n, stored)
  \/ \E h \in BackendHandlers : SubmitBackend(h)
  \/ \E h \in BackendHandlers : RespondBackend(h, FALSE, <<>>)
  \/ computeStreaksFromLogs
  \/ calcStreakFromLogsRange
  \/ computeStreak
  \/ MainAppTotals
  \/ todayTotals

SpecNow == InitNow /\ [][NextNow]_vars

\* ------------------------------------------------------------------ a batch of results
\* the documents with the stamp addDoc gave them (firebaseHelpers l.40);
\* updateDailyLog replaces the stamp by that of the update (l.52)
BatchStores ==
  {[k \in 1..Len(s) |-> s[k] @@ [updatedAt |-> "created"]] : s \in ReconcileStores}

\* the batches the service answers: MaxResults results, without an id or with
\* the id of the first item
BatchInputs == [1..MaxResults -> {Result(n, id) : n \in ResultNames, id \in {None, 0}}]

\* a stamped store, and a result list on its way to analyzeItemsBackend and to
\* handleAnalyzeToday
InitBatch ==
  /\ logs \in BatchStores
  /\ now = Len(logs) + 1
  /\ today = 1
  /\ procs = [h \in Handlers |->
       IF h = "quickAddFood"
       THEN [IdleProc EXCEPT !.pc = "inflight", !.entry = Len(logs), !.nAtSubmit = Len(logs)]
       ELSE IdleProc]
  /\ order = <<"quickAddFood">>
  /\ poll = IdlePoll
  /\ \E input \in BatchInputs : calc = [NoCalc EXCEPT !.input = input]

\* the two reconciliation loops over the result list, every update of the store
\* succeeding or failing
NextBatch ==
  \/ RespondBackend("quickAddFood", TRUE, calc.input)
  \/ \E updated \in BOOLEAN : ReconcileBackend("quickAddFood", updated)
  \/ \E o \in Orderings(TodaysMeals) : handleAnalyzeToday(o)
  \/ RespondToday(TRUE, calc.input)
  \/ \E updated \in BOOLEAN : ReconcileToday(updated)

SpecBatch == InitBatch /\ [][NextBatch]_vars

\* ------------------------------------------------------------------ nutrition goals
\* the defaults of computeBMR and computeGoals
DefaultWeight == 70
DefaultHeight == 170
DefaultAge == 25

\* a profile field as it reaches computeGoals: absent, a text that is no number,
\* or a number
Absent == [kind |-> "absent", n |-> 0]
Text == [kind |-> "text", n |-> 0]
Num(n) == [kind |-> "number", n |-> n]

\* Number(x) || dflt: NaN and 0 give the default, any other number stays
NumberOr(x, dflt) == IF x.kind # "number" \/ x.n = 0 THEN dflt ELSE x.n

\* Math.round of the fraction num / den (den > 0): the nearest integer, halves up
Round(num, den) == (2 * num + den) \div (2 * den)

\* computeBMR (App.js l.223-230), in quarters of a kcal
computeBMR(sex, weight_kg, height_cm, age) ==
  LET w == NumberOr(weight_kg, DefaultWeight)
      h == NumberOr(height_cm, DefaultHeight)
      a == NumberOr(age, DefaultAge)
  IN IF sex = "female" THEN 40 * w + 25 * h - 20 * a - 644
     ELSE 40 * w + 25 * h - 20 * a + 20

\* activityFactor (l.232-241), in fortieths: 1.2, 1.375, 1.55, 1.725, 1.9
activityFactor(level) ==
  CASE level = "sedentary" -> 48
    [] level = "lightly_active" -> 55
    [] level = "moderately_active" -> 62
    [] level = "very_active" -> 69
    [] level = "athlete" -> 76
    [] OTHER -> 62

\* l.253-254: the factor of the goal, in twentieths: 0.85, 1.1, 1
goalFactor(goal) ==
  CASE goal = "weight_loss" -> 17
    [] goal = "weight_gain" -> 22
    [] OTHER -> 20

\* the denominator of tdee: quarters, fortieths and twentieths
TdeeScale == 4 * 40 * 20

\* a leftover that may go below zero
LeftoverUnclamped(tdee, kcal) == tdee - kcal * TdeeScale

\* l.260: Math.max(0, tdee - (kcal_from_protein + kcal_from_fats)), scaled as tdee
Leftover(tdee, kcal) ==
  IF tdee - kcal * TdeeScale > 0 THEN tdee - kcal * TdeeScale ELSE 0

\* computeGoals (l.243-273) in exact arithmetic
Goals(p) ==
  LET bmr == computeBMR(p.sex, p.weight_kg, p.height_cm, p.age)
      tdee == bmr * activityFactor(p.activity_level) * goalFactor(p.goal)
      protein_g == Round(NumberOr(p.weight_kg, DefaultWeight) * 16, 10)
      fats_g == Round(NumberOr(p.weight_kg, DefaultWeight) * 8, 10)
      leftover == Leftover(tdee, protein_g * 4 + fats_g * 9)
  IN [bmr |-> Round(bmr, 4),
      tdee |-> Round(tdee, TdeeScale),
      macro_goals |-> [calories |-> Round(tdee, TdeeScale), protein_g |-> protein_g,
                       carbs_g |-> Round(leftover, 4 * TdeeScale), fats_g |-> fats_g]]

Profiles ==
  [sex : {"male", "female", "none"},
   weight_kg : {Absent, Text, Num(0), Num(-80), Num(70), Num(90)},
   height_cm : {Absent, Num(-170), Num(100), Num(170)},
   age : {Absent, Num(0), Num(25), Num(80)},
   activity_level : {"sedentary", "lightly_active", "moderately_active", "very_active",
                     "athlete", "none"},
   goal : {"maintenance", "weight_loss", "weight_gain"}]

\* a profile on its way to computeGoals
InitGoals ==
  /\ logs = <<>>
  /\ now = 1
  /\ today = 1
  /\ procs = [h \in Handlers |-> IdleProc]
  /\ order = <<>>
  /\ poll = IdlePoll
  /\ \E p \in Profiles : calc = [fn |-> "none", profile |-> p, goals |-> <<>>]

computeGoals ==
  /\ calc.fn = "none"
  /\ calc' = [calc EXCEPT !.fn = "computeGoals", !.goals = Goals(calc.profile)]
  /\ UNCHANGED <<logs, now, today, procs, order, poll>>

NextGoals == computeGoals

SpecGoals == InitGoals /\ [][NextGoals]_vars

\* ------------------------------------------------------------------ properties
Last(s) == s[Len(s)]

\* this step is one iteration of the reconciliation loop of h
ReconcileStep(h) == procs[h].pc = "loop" /\ procs'[h] # procs[h]

\* this step is an iteration in which h updated an entry
Wrote(h) == ReconcileStep(h) /\ Len(procs'[h].applied) = Len(procs[h].applied) + 1

Position(s, h) == CHOOSE k \in 1..Len(s) : s[k] = h

\* q sent its request after h sent its own
SentAfter(q, h) ==
  /\ \E k \in 1..Len(order) : order[k] = q
  /\ \E k \in 1..Len(order) : order[k] = h
  /\ Position(order, q) > Position(order, h)

\* the ids of the entries h submitted, in the order of its request items
SubmittedIds(h) ==
  IF h \in BackendHandlers THEN <<procs[h].entry>>
  ELSE [k \in 1..Len(procs[h].snapshot) |-> procs[h].snapshot[k].id]

\* the id h selects for the result its loop is at (0: none)
Selected(h) ==
  IF h \in BackendHandlers THEN BackendTarget(h)
  ELSE LET k == TodayTarget(procs[h].snapshot, procs[h].results[procs[h].i])
       IN IF k = 0 THEN 0 ELSE procs[h].snapshot[k].id

\* C1: an iteration of a reconciliation loop leaves the calories and macros of
\* every entry that carries a manual calorie override as they were.
C1_ManualOverrideKept ==
  [][\A h \in Handlers : ReconcileStep(h) =>
       \A id \in 1..Len(logs) :
         logs[id].manual_calories # None =>
           /\ logs'[id].calories = logs[id].calories
           /\ logs'[id].macros = logs[id].macros]_vars

\* C2: when a job applies an update, no job whose request was sent later has
\* applied an update yet (the updates of overlapping jobs are serialized in
\* submission order).
C2_UpdatesInSubmissionOrder ==
  [][\A h \in Handlers : Wrote(h) =>
       \A q \in Handlers : SentAfter(q, h) => procs[q].applied = <<>>]_vars

\* C3: the entry a job updates existed when the job's request was sent.
C3_OnlyEntriesOfSubmission ==
  [][\A h \in Handlers : Wrote(h) => Last(procs'[h].applied) <= procs[h].nAtSubmit]_vars

\* C4: no entry is updated twice by the results of one job.
C4_AtMostOncePerJob ==
  \A h \in Handlers :
    \A a, b \in 1..Len(procs[h].applied) : a # b => procs[h].applied[a] # procs[h].applied[b]

\* C5: the entry a reconciliation updates is a meal entry.
C5_OnlyMealsUpdated ==
  [][\A h \in Handlers : Wrote(h) => logs[Last(procs'[h].applied)].category = "meal"]_vars

\* the candidates of the four rules of the matcher over a pool of meal entries
ExactCandidates(pool, analyzed) ==
  {pool[k].id : k \in {j \in 1..Len(pool) : normalize(pool[j].item) = normalize(analyzed.name)}}

PositionalCandidates(submitted, analyzed) ==
  IF analyzed.id # None /\ analyzed.id + 1 <= Len(submitted)
  THEN {submitted[analyzed.id + 1]} ELSE {}

SubstringCandidates(pool, analyzed) ==
  {pool[k].id : k \in {j \in 1..Len(pool) :
      \/ Includes(normalize(pool[j].item), normalize(analyzed.name))
      \/ Includes(normalize(analyzed.name), normalize(pool[j].item))}}

RecentCandidates(pool) ==
  {pool[k].id : k \in {j \in 1..Len(pool) :
      \A m \in 1..Len(pool) : pool[m].timestamp <= pool[j].timestamp}}

\* the first rule that yields exactly one candidate gives the entry (0: none)
DecidedByRules(pool, submitted, analyzed) ==
  LET only(S) == CHOOSE x \in S : TRUE
      e == ExactCandidates(pool, analyzed)
      p == PositionalCandidates(submitted, analyzed)
      c == SubstringCandidates(pool, analyzed)
      r == RecentCandidates(pool)
  IN IF Cardinality(e) = 1 THEN only(e)
     ELSE IF Cardinality(p) = 1 THEN only(p)
     ELSE IF Cardinality(c) = 1 THEN only(c)
     ELSE IF Cardinality(r) = 1 THEN only(r)
     ELSE 0

\* C6: the entry selected for a result is the one given by the first of the
\* rules exact, positional, substring, most recent that yields exactly one
\* candidate among the meal entries the job reads.
C6_FirstRuleWithOneCandidate ==
  \A h \in Handlers :
    procs[h].pc = "loop" =>
      Selected(h) = DecidedByRules(Meals(procs[h].snapshot), SubmittedIds(h),
                                   procs[h].results[procs[h].i])

\* C7: a result item-<n> without an exact match selects the n-th entry the job submitted.
C7_PositionalIsSubmissionOrder ==
  \A h \in BackendHandlers :
    LET analyzed == procs[h].results[procs[h].i]
    IN (/\ procs[h].pc = "loop"
        /\ ExactMatch(procs[h].snapshot, analyzed) = 0
        /\ analyzed.id # None
        /\ analyzed.id + 1 <= Len(SubmittedIds(h)))
       => BackendTarget(h) = SubmittedIds(h)[analyzed.id + 1]

\* the meals of the day of the job of h, as the job reads them
MealsOfTargetDay(h) ==
  LET day == logs[procs[h].entry].date
      P(l) == l.category = "meal" /\ l.date = day
  IN SelectSeq(procs[h].snapshot, P)

\* C8: a result no other rule matches is applied to the meal of the job's day
\* with the greatest timestamp.
C8_MostRecentOfTargetDay ==
  \A h \in BackendHandlers :
    LET analyzed == procs[h].results[procs[h].i]
    IN (/\ procs[h].pc = "loop"
        /\ BackendRule(procs[h].snapshot, analyzed) = "recent"
        /\ analyzed.id = None
        /\ MealsOfTargetDay(h) # <<>>)
       => BackendTarget(h) \in RecentCandidates(MealsOfTargetDay(h))

\* C9: sending the same result list through the reconciliation a second time
\* selects the same entries and leaves the store as the first time left it.
C9_ReconcileIdempotent ==
  (calc.pass = 1 /\ procs["quickAddFood"].pc = "done") =>
    /\ logs = calc.first
    /\ procs["quickAddFood"].applied = calc.firstApplied

\* a second pass has ended, in which two results were applied to the entries
C9_Witness ==
  /\ calc.pass = 1
  /\ procs["quickAddFood"].pc = "done"
  /\ Len(procs["quickAddFood"].applied) >= 2
  /\ \E id \in 1..Len(logs) : logs[id].calories # None

PollEnded == poll.pc \in {"returned", "threw", "caught"}

StatusStep ==
  /\ poll.pc = "loop"
  /\ poll.kind \in Pollers
  /\ poll'.kind = poll.kind
  /\ poll'.attempt = poll.attempt + 1

\* C11: a status poll whose request fails or whose body is malformed is taken as
\* not yet complete: after it the poller, whichever it is, waits for its next poll.
C11_PollErrorIsRetried ==
  [][(StatusStep /\ poll'.resp \in Throwing) => poll'.pc = "wait"]_vars

\* C12: when the first k-1 status polls answer pending and the k-th answers
\* complete, the poller returns that summary after exactly k requests and k-1
\* delays, and a poller that returned a summary makes no further request or delay.
C12_CompleteAfterKPolls ==
  [][/\ (StatusStep /\ poll.allPending /\ poll'.resp = "complete") =>
          /\ poll'.pc = "returned"
          /\ poll'.outcome = "complete"
          /\ poll'.summary = "summary"
          /\ poll'.waits = poll.attempt
     /\ (poll.kind \in Pollers /\ poll.outcome = "complete") =>
          /\ poll'.attempt <= poll.attempt
          /\ poll'.waits <= poll.waits]_vars

\* pollForSummary returned the summary at its third request, after two pending answers
C12_Witness ==
  /\ poll.kind = "pollForSummary"
  /\ poll.outcome = "complete"
  /\ poll.pendingBefore
  /\ poll.attempt = 3
  /\ poll.waits = 2

\* C13: the delays a poller waits between its status polls never decrease from
\* one to the next, and none of them exceeds the 10 s cap.
C13_DelaysNonDecreasingAndCapped ==
  [][(poll.pc = "wait" /\ poll'.pc = "loop") =>
        /\ poll'.delay <= IntervalCap
        /\ poll.waits > 0 => poll'.delay >= poll.delay]_vars

\* C14: a poller never makes more than maxAttempts status requests, and every run
\* of it ends Complete, TimedOut or Failed, whatever the status endpoint answers.
C14_PollerTerminates ==
  /\ [](poll.kind \in Pollers => poll.attempt <= maxAttempts(poll.kind))
  /\ (poll.kind \in Pollers /\ poll.pc \in {"loop", "wait"})
       ~> (poll.kind \in Pollers /\ PollEnded
           /\ poll.outcome \in {"complete", "timeout", "failed"})

\* the poller of generateSummary timed out at its last request although some
\* answers were errors
C14_Witness ==
  /\ poll.kind = "generateSummary"
  /\ poll.outcome = "timeout"
  /\ ~poll.allPending
  /\ poll.attempt = GraphMaxAttempts

\* C15: at every call site, no status request is made for a job whose submit failed.
C15_NoPollAfterFailedSubmit ==
  poll.submitFailed => (poll.attempt = 0 /\ poll.outcome = "failed")

\* C16: once the user has left the page, the poller begins no further status
\* request, no entry is updated and no summary is shown for the abandoned job.
C16_CancelStopsPolling ==
  [][poll.cancelled =>
        /\ poll.pc = "loop" => poll'.attempt <= poll.attempt
        /\ logs' = logs
        /\ poll'.shown = poll.shown]_vars

\* C17 as claimed: no entry is written between the submit and the completing
\* status response, and a job that timed out leaves every entry as it was when
\* the handler was invoked.
C17_UnchangedSinceInvoked ==
  /\ poll.pc \in {"loop", "wait"} => logs = poll.submitted
  /\ (poll.kind = "pollForSummary" /\ poll.outcome = "timeout") => logs = poll.invoked

\* C17 as amended: no entry is written between the submit and the completing
\* status response, and a job that timed out leaves every entry as it was when
\* the job was submitted; handleSummarizeToday may have updated today's meals
\* through handleAnalyzeToday before it submitted.
C17_UnchangedSinceSubmit ==
  /\ poll.pc \in {"loop", "wait"} => logs = poll.submitted
  /\ poll.outcome = "timeout" => logs = poll.submitted

\* handleSummarizeToday analysed today's meals, submitted, and its poller timed out
C17_Witness ==
  /\ poll.kind = "pollForSummary"
  /\ poll.pc = "caught"
  /\ poll.outcome = "timeout"
  /\ logs # poll.invoked
  /\ logs = poll.submitted

\* C18: a run_nutrients request that errors or answers a non-success status ends
\* the analysis job without any update: the collection is unchanged, the job has
\* applied nothing, and only a job whose result list arrived reconciles.
C18_FailedJobChangesNothing ==
  [][/\ (RespondBackend("handleAddLog", FALSE, <<>>) \/ RespondToday(FALSE, <<>>)) =>
          /\ logs' = logs
          /\ \A h \in Handlers : procs'[h] # procs[h] =>
               (procs'[h].pc = "done" /\ procs'[h].applied = <<>>)
     /\ \A h \in Handlers : Wrote(h) => procs[h].results # <<>>]_vars

\* the analysis of today's meals failed while an entry was in the collection
C18_Witness ==
  /\ procs["handleAnalyzeToday"].pc = "done"
  /\ procs["handleAnalyzeToday"].applied = <<>>
  /\ logs # <<>>
  /\ \A k \in 1..Len(logs) : logs[k].macros = NoMacros /\ logs[k].provenance = "none"

\* the calendar days on which a meal was logged
MealDays == {NewDate(logs[k].date) : k \in {j \in 1..Len(logs) : logs[j].category = "meal"}}

\* the number of consecutive days with a meal, counted back from the user's today
RECURSIVE DaysBack(_)
DaysBack(day) == IF day \in MealDays THEN 1 + DaysBack(day - 1) ELSE 0

\* the length of the longest run of consecutive days with a meal
LongestRun ==
  LET runs == {<<a, b>> \in MealDays \X MealDays : a <= b /\ \A d \in a..b : d \in MealDays}
  IN IF runs = {} THEN 0
     ELSE LET r == CHOOSE r \in runs : \A q \in runs : q[2] - q[1] <= r[2] - r[1]
          IN r[2] - r[1] + 1

\* C19: every current-streak function returns the number of consecutive calendar
\* days, counted back from today inclusive, on which a meal was logged; entries
\* of other categories add no day.
C19_CurrentStreak == calc.fn # "none" => calc.current = DaysBack(today)

\* C20: the best streak of computeStreaksFromLogs is the length of the longest run
\* of consecutive calendar days among the days on which a meal was logged.
C20_BestStreak == calc.fn = "computeStreaksFromLogs" => calc.best = LongestRun

\* computeStreaksFromLogs found a best streak of three days in a collection
\* whose three meals lie on consecutive days across the keys 09 and 10
C20_Witness ==
  /\ calc.fn = "computeStreaksFromLogs"
  /\ calc.best = 3
  /\ fmt(9) \in MealDates(logs)
  /\ fmt(10) \in MealDates(logs)

C29_NoSpuriousCompletion ==
  (poll.kind \in Pollers /\ (poll.summary # "none" \/ poll.outcome = "complete")) =>
    /\ poll.resp = "complete"
    /\ poll.outcome = "complete"
    /\ poll.summary = SummaryOf(poll.resp)
    /\ poll.summary # "none"

\* generateDailySummary returned a summary after answers that were not all pending
C29_Witness ==
  /\ poll.kind = "generateDailySummary"
  /\ poll.outcome = "complete"
  /\ ~poll.pendingBefore
  /\ poll.summary = "summary"

\* C22: for every profile, the carbohydrate goal computeGoals returns is not negative.
C22_CarbsNotNegative ==
  calc.fn = "computeGoals" => calc.goals.macro_goals.carbs_g >= 0

\* computeGoals met a profile whose protein and fat calories exceed its tdee
C22_Witness ==
  /\ calc.fn = "computeGoals"
  /\ calc.goals.macro_goals.protein_g * 4 + calc.goals.macro_goals.fats_g * 9 > calc.goals.tdee
  /\ calc.goals.tdee > 0
  /\ calc.goals.macro_goals.carbs_g = 0

\* a numeric field that is present, a number and positive, or else its default
Valid(x, dflt) == IF x.kind = "number" /\ x.n > 0 THEN x ELSE Num(dflt)

\* the profile with every missing or invalid numeric field replaced by its default
WithDefaults(p) ==
  [p EXCEPT !.weight_kg = Valid(p.weight_kg, DefaultWeight),
            !.height_cm = Valid(p.height_cm, DefaultHeight),
            !.age = Valid(p.age, DefaultAge)]

\* C23: computeGoals replaces every absent, non-numeric, zero or negative weight,
\* height or age by its default: its result is that of the profile with the
\* defaults in place.
C23_InvalidFieldsDefaulted ==
  calc.fn = "computeGoals" => calc.goals = Goals(WithDefaults(calc.profile))

\* C24: for male, 70 kg, 170 cm, 25 y, moderately_active, maintenance, computeGoals
\* returns bmr 1643 and the tdee that 1643 x 1.55 rounds to.
C24_ReferenceProfile ==
  (/\ calc.fn = "computeGoals"
   /\ calc.profile = [sex |-> "male", weight_kg |-> Num(70), height_cm |-> Num(170),
                      age |-> Num(25), activity_level |-> "moderately_active",
                      goal |-> "maintenance"]) =>
    /\ calc.goals.bmr = 1643
    /\ calc.goals.tdee = Round(1643 * 62, 40)

\* the sum of a field over the meals of a day, a missing field counting as zero
RECURSIVE SumOfDay(_, _, _, _)
SumOfDay(rows, day, key, k) ==
  IF k > Len(rows) THEN 0
  ELSE (IF rows[k].category = "meal" /\ rows[k].date = day
        THEN (IF key = "calories"
              THEN (IF rows[k].calories # None THEN rows[k].calories ELSE 0)
              ELSE Coalesce(rows[k].macros, <<key>>, 1))
        ELSE 0)
       + SumOfDay(rows, day, key, k + 1)

dailyTotals(logEntries, day) ==
  [calories |-> SumOfDay(logEntries, day, "calories", 1),
   protein |-> SumOfDay(logEntries, day, "protein_g", 1),
   carbs |-> SumOfDay(logEntries, day, "total_carbohydrate_g", 1),
   fats |-> SumOfDay(logEntries, day, "total_fat_g", 1)]

\* C21: the totals of a day are the sums over exactly the meals of that day; the
\* totals of App.js and of ActivityGraph.jsx for today, and the calories of
\* aggregateWeek for each day of its window, are these sums on the same collection.
C21_DailyTotals ==
  /\ calc.fn \in {"MainApp", "todayTotals"} =>
       calc.totals = dailyTotals(logs, toLocaleDateString(today))
  /\ calc.fn = "aggregateWeek" =>
       \A key \in DOMAIN calc.week : calc.week[key] = dailyTotals(logs, key).calories

\* C27: an aggregator evaluated right after handleAddLog or quickAddFood stored a
\* meal counts that meal for today: a streak function returns a current streak of at
\* least 1, and today's totals include the entry, whatever the distance to UTC.
C27_LoggedNowCountsToday ==
  [][(/\ calc.fn = "none"
      /\ calc'.fn # "none"
      /\ \E h \in BackendHandlers : procs[h].pc = "created") =>
       /\ calc'.fn \in {"computeStreaksFromLogs", "calcStreakFromLogsRange", "computeStreak"} =>
            calc'.current >= 1
       /\ calc'.fn \in {"MainApp", "todayTotals"} =>
            \A h \in BackendHandlers : procs[h].pc = "created" => procs[h].entry \in calc'.rows]_vars

\* C30: run_nutrients is sent by a handler only after its createDailyLog stored the
\* entry, and a handler whose createDailyLog failed returns without a request and
\* without an update.
C30_StoredBeforeSubmit ==
  [][\A h \in BackendHandlers :
       /\ (procs[h].pc # "inflight" /\ procs'[h].pc = "inflight") =>
            /\ procs[h].pc = "created"
            /\ procs[h].entry \in 1..Len(logs)
            /\ logs[procs[h].entry].category = "meal"
            /\ logs' = logs
       /\ (Free(h) /\ procs'[h] # procs[h] /\ Len(logs') = Len(logs)) =>
            /\ procs'[h].pc = "done"
            /\ procs'[h].applied = <<>>
            /\ order' = order
            /\ logs' = logs]_vars

\* the request of handleAddLog is in flight for the meal it stored, and quickAddFood
\* returned without an update
C30_Witness ==
  /\ procs["handleAddLog"].pc = "inflight"
  /\ procs["handleAddLog"].entry \in 1..Len(logs)
  /\ logs[procs["handleAddLog"].entry].category = "meal"
  /\ procs["quickAddFood"].pc = "done"
  /\ procs["quickAddFood"].applied = <<>>

\* the loops that reconcile a batch of results
Reconcilers == {"quickAddFood", "handleAddLog", "handleAnalyzeToday"}

\* the id the loop of h selects for its current result (0: none)
SelectedBy(h) ==
  IF h = "handleAnalyzeToday"
  THEN LET k == TodayTarget(procs[h].snapshot, procs[h].results[procs[h].i])
       IN IF k = 0 THEN 0 ELSE procs[h].snapshot[k].id
  ELSE BackendTarget(h)

\* a step of the loop of h
LoopStep(h) == procs[h].pc = "loop" /\ procs'[h] # procs[h]

\* C25: a result without a candidate, or whose update failed, changes nothing and
\* does not end the loop: the loop goes on to the next result of the batch, and a
\* result with a candidate whose update succeeds is applied.
C25_DroppedWithoutAbort ==
  [][\A h \in Reconcilers : LoopStep(h) =>
       /\ IF procs[h].i < Len(procs[h].results)
          THEN /\ procs'[h].pc = "loop"
               /\ procs'[h].i = procs[h].i + 1
               /\ procs'[h].results = procs[h].results
               /\ procs'[h].snapshot = procs[h].snapshot
          ELSE procs'[h].pc = "done"
       /\ \/ logs' = logs /\ procs'[h].applied = procs[h].applied
          \/ /\ SelectedBy(h) # 0
             /\ procs'[h].applied = Append(procs[h].applied, SelectedBy(h))
             /\ logs'[SelectedBy(h)].updatedAt = "serverTimestamp"
       /\ SelectedBy(h) = 0 => logs' = logs]_vars

\* the first result of a batch of two was dropped and the second one applied
C25_Witness ==
  /\ procs["quickAddFood"].pc = "done"
  /\ procs["handleAnalyzeToday"].pc = "idle"
  /\ Len(calc.input) = 2
  /\ calc.input[1].name = Xyz
  /\ calc.input[2].name = rice
  /\ Len(procs["quickAddFood"].applied) = 1
  /\ logs[procs["quickAddFood"].applied[1]].calories = ServiceCalories(rice)

\* a step of a reconciliation loop changes, of every entry, at most the fields in
\* `written`, and changes no entry but the selected one
WritesOnly(written) ==
  \A h \in Reconcilers : LoopStep(h) =>
    /\ Len(logs') = Len(logs)
    /\ \A k \in 1..Len(logs) :
         /\ DOMAIN logs'[k] = DOMAIN logs[k]
         /\ \A f \in DOMAIN logs[k] \ written : logs'[k][f] = logs[k][f]
         /\ k # SelectedBy(h) => logs'[k] = logs[k]

\* C26 as stated: reconciliation writes only calories, macros and provenance of the
\* selected entry.
C26_WritesCaloriesMacrosProvenance ==
  [][WritesOnly({"calories", "macros", "provenance"})]_vars

\* C26: reconciliation writes only calories, macros, provenance and the updatedAt
\* stamp of the selected entry; id, item, quantity, category, timestamp and date of
\* every entry stay, and an entry that is not selected is unchanged in every field.
C26_WritesAlsoUpdatedAt ==
  [][WritesOnly({"calories", "macros", "provenance", "updatedAt"})]_vars

\* handleAnalyzeToday wrote the analysis into a meal and left another entry alone
C26_Witness ==
  /\ procs["handleAnalyzeToday"].pc = "done"
  /\ Len(procs["handleAnalyzeToday"].applied) = 1
  /\ Len(logs) = 2
  /\ \E k \in 1..2 :
       /\ logs[k].updatedAt = "serverTimestamp"
       /\ logs[k].calories = ServiceCalories(rice)
       /\ logs[3 - k].updatedAt = "created"
       /\ logs[3 - k].calories = None

====
